---- MODULE Spec2Model ----
(***************************************************************************)
(* Model of the blinky-iva simulation driver (mbss_sim.py: one_loop) and   *)
(* of the joint iteration driver it calls (blinkiva_gauss).                *)
(*                                                                         *)
(* Signals are abstracted to small naturals: a channel is its amplitude,   *)
(* a matrix entry is a fixed-point magnitude in Floor..MaxVal, and a value *)
(* above MaxVal stands for a non-finite float (Inf).                       *)
(***************************************************************************)
EXTENDS Integers, Sequences, FiniteSets, TLC

VARIABLES
    rng,          \* state of the process-wide generator (np.random)
    parameters,   \* the global parameters dictionary
    pc,           \* position of the one_loop call / of the separation it runs
    args,         \* the argument tuple of the running call
    rng_state,    \* local rng_state saved by one_loop
    X_mics,       \* microphone spectra (amplitude)
    U_blinky,     \* blinky power
    results,      \* local list results
    algIdx,       \* position in parameters['algorithm_kwargs'].items()
    ret,          \* <<value returned to the caller>>, or <<>>
    W, R, G,      \* estimator state of the running separation
    P, V,         \* per-source power estimate, auxiliary covariances
    epoch, sub,   \* outer iterations done, NMF passes done in this iteration
    row,          \* number of (bin, source) rows updated in this iteration
    lastValid,    \* last state in which W, R, G were all finite
    diag,         \* diagnostic indicator of the separation
    Y,            \* spectra returned by the separation
    trace,        \* steps of the current outer iteration, in order
    exc,          \* the exception propagating out of the call, if any
    fin,          \* <<the estimator state the joint driver ended with>>
    ref           \* <<the first completed call>>, kept for comparison

vars == <<rng, parameters, pc, args, rng_state, X_mics, U_blinky, results,
          algIdx, ret, W, R, G, P, V, epoch, sub, row, lastValid, diag, Y,
          trace, exc, fin, ref>>

-----------------------------------------------------------------------------
(* Bounds *)

MaxSrc == 2
MaxMics == 2
NWav == 3
NSeeds == 2
RngMod == 3
NBins == 2
n_iter == 2
n_nmf_sub_iter == 2

(* Fixed-point range *)
Floor == 1
MaxVal == 4
Inf == MaxVal + 1
Load == 1

n_interferers == 1
sparse_reg == 0
driver_seed == 0

None == "none"

Max(a, b) == IF a >= b THEN a ELSE b
Min(a, b) == IF a <= b THEN a ELSE b

-----------------------------------------------------------------------------
(* The process-wide random generator *)

SeedState(seed) == seed % RngMod
Advance(r) == (2 * r + 1) % RngMod
Draw(r) == r

-----------------------------------------------------------------------------
(* Inputs *)

Args == [n_targets : 1..MaxSrc, n_mics : 1..MaxMics,
         wav_files : 0..(NWav - 1), seed : 0..(NSeeds - 1)]

AlgoLists == { <<"auxiva", "blinkiva-gauss">>,
               <<"blinkiva-gauss", "ilrma">> }

Parameters == [monitor_convergence : BOOLEAN, proj_back : BOOLEAN,
               algorithm_kwargs : AlgoLists]

\* number of signals read from the files, amplitude of the signals
NumSignals(wav) == 2 + (wav % 2)
Amp(wav) == wav

-----------------------------------------------------------------------------
(* Fixed-point arithmetic *)

Sat(v) == IF v > MaxVal THEN Inf ELSE v
NoClip(v) == v
Clip(v) == IF v < Floor THEN Floor ELSE v
IsFinite(v) == v <= MaxVal

Bins == 1..NBins
Srcs(n) == 1..n

RECURSIVE SumFn(_, _)
SumFn(f, n) == IF n = 0 THEN 0 ELSE f[n] + SumFn(f, n - 1)

-----------------------------------------------------------------------------
(* Separated spectra, projection back, evaluation *)

\* Y = W X per bin
Demix(w, x, n) == [f \in Bins |-> [k \in Srcs(n) |-> w[f][k] * x]]

\* rescale each (bin, source) so that it matches the reference microphone
ProjBack(y, x, n) ==
    [f \in Bins |-> [k \in Srcs(n) |->
        (x \div Max(1, y[f][k])) * y[f][k]]]

\* the spectra handed to the callback and returned by the separation
Output(w, x, n, pb) ==
    IF pb THEN ProjBack(Demix(w, x, n), x, n) ELSE Demix(w, x, n)

\* inverse STFT: one time-domain amplitude per channel
Synthesis(y, n) == [k \in 1..n |-> SumFn([f \in Bins |-> y[f][k]], NBins)]

RECURSIVE InsertDesc(_, _)
InsertDesc(v, s) ==
    IF s = <<>> THEN <<v>>
    ELSE IF v >= Head(s) THEN <<v>> \o s
    ELSE <<Head(s)>> \o InsertDesc(v, Tail(s))

RECURSIVE SortDesc(_)
SortDesc(s) == IF s = <<>> THEN <<>> ELSE InsertDesc(Head(s), SortDesc(Tail(s)))

StartsWithBlinkiva(name) == name \in {"blinkiva", "blinkiva-gauss"}

\* the channels that are evaluated, in evaluation order
Reorder(y, name) == IF StartsWithBlinkiva(name) THEN y ELSE SortDesc(y)

Evaluated(y, n, n_targets, name) ==
    SubSeq(Reorder(Synthesis(y, n), name), 1, n_targets)

\* bss_eval_sources refuses an estimated source that is silent
EvalRaises(y, n, n_targets, name) ==
    \E k \in 1..n_targets : Evaluated(y, n, n_targets, name)[k] = 0

Sdr(e) == [k \in 1..Len(e) |-> e[k]]
Sir(e) == [k \in 1..Len(e) |-> 2 * e[k] + 1]

\* results[-1] after convergence_callback appended to its sdr and sir lists
AppendEval(res, y, n, n_targets, name) ==
    LET e == Evaluated(y, n, n_targets, name)
        last == res[Len(res)]
    IN  [res EXCEPT ![Len(res)] =
            [last EXCEPT !.sdr = Append(last.sdr, Sdr(e)),
                         !.sir = Append(last.sir, Sir(e))]]

\* X_mics as spectra: every microphone channel carries the mixture
MicSpectra(x, n_mics) == [f \in Bins |-> [m \in 1..n_mics |-> x]]

-----------------------------------------------------------------------------
(* Power model, auxiliary covariances, demixing update *)

\* per-source power of Y = W X
AudioPower(w, x, n) ==
    [k \in Srcs(n) |-> SumFn([f \in Bins |-> w[f][k] * x], NBins)]

Approx(r, g, n) == SumFn([k \in Srcs(n) |-> r[k] * g[k]], n)

\* multiplicative update of the activations, clipped to the floor
UpdateR(r, g, u, p, n) ==
    [k \in Srcs(n) |->
        Sat(Clip((r[k] * (u * g[k] + p[k]))
                 \div Max(Floor, Approx(r, g, n) * g[k] + r[k] + sparse_reg)))]

\* multiplicative update of the gains, clipped to the floor
UpdateG(r, g, u, n) ==
    [k \in Srcs(n) |->
        Sat(Clip((g[k] * (u * r[k]))
                 \div Max(Floor, Approx(r, g, n) * r[k])))]

\* V[f,k]: the mixture's outer product weighted by the reciprocal power
Covariance(x, r, g, n) ==
    [f \in Bins |-> [k \in Srcs(n) |->
        Sat((x * x) \div Max(Floor, r[k] * g[k]))]]

\* diagonal loading of a singular covariance
Regularize(v) == IF v = 0 THEN v + Load ELSE v

\* the new row k of bin f, normalised; it uses the rows updated before it
RowUpdate(wf, k, v, n) ==
    IF ~IsFinite(v) THEN Inf
    ELSE Sat(Max(1,
             (1 + SumFn([j \in Srcs(n) |-> IF j = k THEN 0 ELSE wf[j]], n))
             \div Regularize(v)))

AllFinite(w, r, g, n) ==
    /\ \A f \in Bins : \A k \in Srcs(n) : IsFinite(w[f][k])
    /\ \A k \in Srcs(n) : IsFinite(r[k]) /\ IsFinite(g[k])

-----------------------------------------------------------------------------
(* one_loop *)

Blank == <<>>
NoValue == 0 - 1

\* the estimator's variables, untouched
DriverIdle == UNCHANGED <<W, R, G, P, V, epoch, sub, row, lastValid, diag, Y,
                          trace, fin>>

N == args.n_targets
Algos == parameters.algorithm_kwargs
\* the loop variable name, which the callback reads when it is called
StaleName == Algos[1]
Name == Algos[algIdx]

\* what the caller gets in the underdetermined case
UnderdeterminedRaises == [pc |-> "raised", ret |-> <<>>, exc |-> "config"]
UnderdeterminedExit == [pc |-> "returned", ret |-> << <<>> >>, exc |-> None]

\* the generator after one_loop's entry: np.random.seed(seed)
Unseeded(r, seed) == r
Seeded(r, seed) == SeedState(seed)

\* the generator when an exception leaves one_loop: as the body left it
RngOnRaise(saved, cur) == cur

\* the generator when one_loop returns its results: set_state(rng_state)
RngOnReturn(saved, cur) == saved

\* the power the blinkies report for a mixture of amplitude x
BlinkyPower(x) == (x * x) \div 2

\* an exception raised under one_loop: nothing catches it
Propagate(e) == [pc |-> "raised", exc |-> e]

\* a failure of the convergence callback inside a separation
CallbackSwallowed == [pc |-> "loop", exc |-> None]
CallbackFailure == Propagate("callback")

\* the assertion on the number of sources placed in the room
SimulatorRaises(a) == NumSignals(a.wav_files) < n_interferers + a.n_targets

Entry(name) ==
    [algorithm |-> name, n_targets |-> args.n_targets, n_mics |-> args.n_mics,
     seed |-> args.seed, sdr |-> <<>>, sir |-> <<>>]

\* once a call is kept for comparison, the calls that follow repeat its
\* arguments (under any parameters, from any generator state)
Replay(a) == IF ref = <<>> THEN TRUE ELSE a = ref[1].args

NeverUnderdetermined(a) == FALSE
Underdetermined(a) == a.n_mics < a.n_targets

\* the call returns [] before anything else happens
CallUnderdetermined(a) ==
    /\ pc = "idle"
    /\ Replay(a)
    /\ Underdetermined(a)
    /\ args' = a
    /\ pc' = UnderdeterminedExit.pc
    /\ ret' = UnderdeterminedExit.ret
    /\ exc' = UnderdeterminedExit.exc
    /\ UNCHANGED <<rng, parameters, rng_state, X_mics, U_blinky, results,
                   algIdx, ref>>
    /\ DriverIdle

\* entry of one_loop up to the STFT of the simulated mixture
CallSimulate(a) ==
    /\ pc = "idle"
    /\ Replay(a)
    /\ ~Underdetermined(a)
    /\ args' = a
    /\ rng_state' = rng
    /\ LET seeded == Seeded(rng, a.seed)
       IN  IF SimulatorRaises(a)
           THEN /\ pc' = Propagate("assert").pc
                /\ exc' = Propagate("assert").exc
                /\ rng' = RngOnRaise(rng, seeded)
                /\ UNCHANGED <<X_mics, U_blinky, results, algIdx>>
           ELSE /\ pc' = "loop"
                /\ exc' = None
                /\ rng' = Advance(seeded)
                /\ X_mics' = Amp(a.wav_files) + Draw(seeded)
                /\ U_blinky' = BlinkyPower(Amp(a.wav_files) + Draw(seeded))
                /\ results' = <<>>
                /\ algIdx' = 1
    /\ UNCHANGED <<parameters, ret, ref>>
    /\ DriverIdle

\* one pass through the head of the loop over algorithm_kwargs
LoopStart ==
    /\ pc = "loop"
    /\ algIdx <= Len(Algos)
    /\ LET res1 == Append(results, Entry(Name))
           x0 == MicSpectra(X_mics, args.n_mics)
       IN  IF ~parameters.monitor_convergence
              /\ EvalRaises(x0, args.n_mics, N, Name)
           THEN /\ pc' = Propagate("initial_eval").pc
                /\ exc' = Propagate("initial_eval").exc
                /\ rng' = RngOnRaise(rng_state, rng)
                /\ results' = res1
                /\ UNCHANGED <<algIdx, W, epoch>>
           ELSE /\ results' = IF parameters.monitor_convergence THEN res1
                              ELSE AppendEval(res1, x0, args.n_mics, N, Name)
                /\ UNCHANGED <<rng, exc>>
                /\ IF Name = "auxiva"
                   THEN /\ pc' = "auxiva"
                        /\ W' = [f \in Bins |-> [k \in Srcs(args.n_mics) |-> 1]]
                        /\ epoch' = 0
                        /\ UNCHANGED algIdx
                   ELSE IF Name = "blinkiva-gauss"
                   THEN /\ pc' = "Initializing"
                        /\ UNCHANGED <<algIdx, W, epoch>>
                   ELSE /\ pc' = "loop"
                        /\ algIdx' = algIdx + 1
                        /\ UNCHANGED <<W, epoch>>
    /\ UNCHANGED <<parameters, args, rng_state, X_mics, U_blinky, ret, ref,
                   R, G, P, V, sub, row, lastValid, diag, Y, trace, fin>>

\* the loop is over: restore the generator and return the results
LoopDone ==
    /\ pc = "loop"
    /\ algIdx > Len(Algos)
    /\ rng' = RngOnReturn(rng_state, rng)
    /\ ret' = <<results>>
    /\ pc' = "returned"
    /\ UNCHANGED <<parameters, args, rng_state, X_mics, U_blinky, results,
                   algIdx, exc, ref>>
    /\ DriverIdle

\* the evaluation of the Y the algorithm returned
LastEval ==
    /\ pc = "Terminated"
    /\ LET n == IF Name = "auxiva" THEN args.n_mics ELSE N
       IN  IF EvalRaises(Y, n, N, Name)
           THEN /\ pc' = Propagate("final_eval").pc
                /\ exc' = Propagate("final_eval").exc
                /\ rng' = RngOnRaise(rng_state, rng)
                /\ UNCHANGED <<results, algIdx>>
           ELSE /\ pc' = "loop"
                /\ results' = AppendEval(results, Y, n, N, Name)
                /\ algIdx' = algIdx + 1
                /\ UNCHANGED <<rng, exc>>
    /\ UNCHANGED <<parameters, args, rng_state, X_mics, U_blinky, ret, ref>>
    /\ DriverIdle

\* the caller takes the outcome; the call's locals are gone
Finish(keep) ==
    /\ pc \in {"returned", "raised"}
    /\ keep => ref = <<>>
    /\ ref' = IF keep
              THEN <<[args |-> args, parameters |-> parameters, pc |-> pc,
                      ret |-> ret, fin |-> fin, entry_rng |-> rng_state]>>
              ELSE ref
    /\ pc' = "idle"
    /\ args' = Blank /\ rng_state' = NoValue /\ X_mics' = NoValue
    /\ U_blinky' = NoValue /\ results' = Blank /\ algIdx' = 0
    /\ ret' = <<>> /\ exc' = None
    /\ W' = Blank /\ R' = Blank /\ G' = Blank /\ P' = Blank /\ V' = Blank
    /\ epoch' = 0 /\ sub' = 0 /\ row' = 0 /\ lastValid' = Blank
    /\ diag' = FALSE /\ Y' = Blank /\ trace' = <<>> /\ fin' = <<>>
    /\ UNCHANGED <<rng, parameters>>

\* other code of the process draws from or reseeds the generator
OtherRngUse(r) ==
    /\ pc = "idle"
    /\ r # rng
    /\ rng' = r
    /\ UNCHANGED <<parameters, pc, args, rng_state, X_mics, U_blinky,
                   results, algIdx, ret, exc, ref>>
    /\ DriverIdle

\* the runner loads another configuration
Configure(p) ==
    /\ pc = "idle"
    /\ p # parameters
    /\ parameters' = p
    /\ UNCHANGED <<rng, pc, args, rng_state, X_mics, U_blinky, results,
                   algIdx, ret, exc, ref>>
    /\ DriverIdle

-----------------------------------------------------------------------------
(* generate_arguments *)

\* a list of the configuration: distinct values, in any order
Lists(S) ==
    { l \in UNION { [1..n -> S] : n \in 1..Cardinality(S) } :
        \A i, j \in 1..Len(l) : i # j => l[i] # l[j] }

rt60_list == <<"0.2", "0.5">>
sinr_list == <<"5">>

\* what generate_arguments reads from the parameters
GenParameters ==
    [n_targets_list : Lists(1..MaxSrc), n_mics_list : Lists(1..MaxMics),
     n_repeat : {1, 2}, seed : 0..(NSeeds - 1)]

\* sampling() gives n_repeat sets of files
all_wav_files(g) == [i \in 1..g.n_repeat |-> i - 1]

\* "we don't do underdetermined"
NeverSkipped(n_targets, n_mics) == FALSE
Skipped(n_targets, n_mics) == n_targets > n_mics

\* the passes through the three inner loops for one (n_targets, n_mics)
InnerSize(g) == Len(rt60_list) * Len(sinr_list) * g.n_repeat

\* the tuple appended in the c-th inner pass (from 0), wav_files innermost
Tuple(g, n_targets, n_mics, c, seed) ==
    [n_targets |-> n_targets, n_mics |-> n_mics,
     rt60 |-> rt60_list[(c \div (g.n_repeat * Len(sinr_list))) + 1],
     sinr |-> sinr_list[((c \div g.n_repeat) % Len(sinr_list)) + 1],
     wav_files |-> all_wav_files(g)[(c % g.n_repeat) + 1],
     seed |-> seed]

\* the loops over rt60, sinr and wav_files from pass c on: r is the
\* generator, acc the list args
RECURSIVE InnerLoops(_, _, _, _, _, _)
InnerLoops(g, n_targets, n_mics, c, r, acc) ==
    IF c = InnerSize(g) THEN [rng |-> r, args |-> acc]
    ELSE InnerLoops(g, n_targets, n_mics, c + 1, Advance(r),
                    Append(acc, Tuple(g, n_targets, n_mics, c, Draw(r))))

\* the loops over n_targets and n_mics from the p-th pair on (from 0)
RECURSIVE GenLoop(_, _, _, _)
GenLoop(g, p, r, acc) ==
    IF p = Len(g.n_targets_list) * Len(g.n_mics_list) THEN acc
    ELSE LET n_targets == g.n_targets_list[(p \div Len(g.n_mics_list)) + 1]
             n_mics == g.n_mics_list[(p % Len(g.n_mics_list)) + 1]
             inner == InnerLoops(g, n_targets, n_mics, 0, r, acc)
         IN  IF Skipped(n_targets, n_mics)
             THEN GenLoop(g, p + 1, r, acc)
             ELSE GenLoop(g, p + 1, inner.rng, inner.args)

\* the list generate_arguments returns: the generator is seeded, gen_files_seed
\* is drawn, then one seed per argument tuple
ArgList(g) == GenLoop(g, 0, Advance(SeedState(g.seed)), <<>>)

\* generate_arguments(parameters), from its entry to its return; the runner
\* calls it before it keeps the outcome of any call of one_loop
GenerateArguments ==
    /\ pc = "idle"
    /\ ref = <<>>
    /\ \E g \in GenParameters :
          /\ args' = g
          /\ ret' = <<ArgList(g)>>
    /\ rng_state' = rng
    /\ rng' = rng_state'
    /\ pc' = "generated"
    /\ UNCHANGED <<parameters, X_mics, U_blinky, results, algIdx, exc, ref>>
    /\ DriverIdle

\* the runner takes the list
TakeArguments ==
    /\ pc = "generated"
    /\ pc' = "idle"
    /\ args' = Blank /\ rng_state' = NoValue /\ ret' = <<>>
    /\ UNCHANGED <<rng, parameters, X_mics, U_blinky, results, algIdx, exc,
                   ref>>
    /\ DriverIdle

-----------------------------------------------------------------------------
(* pra.bss.auxiva, as one_loop uses it *)

Cb == parameters.monitor_convergence

OneLoopIdle == UNCHANGED <<parameters, args, rng_state, X_mics, U_blinky,
                           algIdx, ret, ref>>

AuxivaUpdate(w, x, n) ==
    [f \in Bins |-> [k \in Srcs(n) |->
        RowUpdate(w[f], k, Sat((x * x) \div Max(Floor, w[f][k] * x)), n)]]

AuxivaIteration ==
    /\ pc = "auxiva"
    /\ epoch < n_iter
    /\ W' = AuxivaUpdate(W, X_mics, args.n_mics)
    /\ epoch' = epoch + 1
    /\ LET y == Output(W', X_mics, args.n_mics, parameters.proj_back)
       IN  IF Cb /\ EvalRaises(y, args.n_mics, N, Name)
           THEN /\ pc' = CallbackFailure.pc
                /\ exc' = CallbackFailure.exc
                /\ rng' = RngOnRaise(rng_state, rng)
                /\ UNCHANGED results
           ELSE /\ results' = IF Cb
                              THEN AppendEval(results, y, args.n_mics, N, Name)
                              ELSE results
                /\ UNCHANGED <<pc, exc, rng>>
    /\ OneLoopIdle
    /\ UNCHANGED <<R, G, P, V, sub, row, lastValid, diag, Y, trace, fin>>

AuxivaReturn ==
    /\ pc = "auxiva"
    /\ epoch = n_iter
    /\ Y' = Output(W, X_mics, args.n_mics, parameters.proj_back)
    /\ pc' = "Terminated"
    /\ OneLoopIdle
    /\ UNCHANGED <<rng, results, exc, W, R, G, P, V, epoch, sub, row,
                   lastValid, diag, trace, fin>>

-----------------------------------------------------------------------------
(* The joint iteration driver (blinkiva_gauss) *)

RECURSIVE AdvanceN(_, _)
AdvanceN(r, i) == IF i = 0 THEN r ELSE AdvanceN(Advance(r), i - 1)

Rows == NBins * N

\* the bin and the source of the r-th row update of an iteration (from 0)
RowBin(r) == (r \div N) + 1
RowSrc(r) == (r % N) + 1

\* the NMF passes of this outer iteration are over
NmfDone(s) == s = n_nmf_sub_iter

\* every row of every bin was updated in this outer iteration
DemixDoneEarly(r) == r >= Rows - 1
DemixDone(r) == r = Rows

\* the iteration budget is spent
OneMoreIteration(e) == e = n_iter + 1
BudgetSpent(e) == e = n_iter

State(w, r, g) == [W |-> w, R |-> r, G |-> g]

\* the driver returns: the spectra, and the estimator state it ends with
Return(st, d, e) ==
    /\ pc' = "Terminated"
    /\ Y' = Output(st.W, X_mics, N, parameters.proj_back)
    /\ fin' = <<[W |-> st.W, R |-> st.R, G |-> st.G, diag |-> d, epoch |-> e]>>

\* a non-finite value: give up and fall back to the last valid state
KeepCurrent(last, cur) == cur
Fallback(last, cur) == last

Abort ==
    LET st == Fallback(lastValid, State(W, R, G))
    IN  /\ W' = st.W /\ R' = st.R /\ G' = st.G
        /\ diag' = TRUE
        /\ Return(st, TRUE, epoch)

\* the next outer iteration, or the end
Continue(e, st) ==
    IF BudgetSpent(e)
    THEN Return(st, FALSE, e)
    ELSE /\ pc' = "AudioPowerUpdate"
         /\ UNCHANGED <<Y, fin>>

DriverInit ==
    /\ pc = "Initializing"
    /\ LET r0 == SeedState(driver_seed)
       IN  /\ R' = [k \in Srcs(N) |-> Clip(1 + Draw(AdvanceN(r0, k - 1)))]
           /\ rng' = AdvanceN(r0, N)
    /\ W' = [f \in Bins |-> [k \in Srcs(N) |-> 1]]
    /\ G' = [k \in Srcs(N) |-> 1]
    /\ lastValid' = State(W', R', G')
    /\ diag' = FALSE
    /\ epoch' = 0 /\ sub' = 0 /\ row' = 0
    /\ trace' = <<>>
    /\ Continue(0, lastValid')
    /\ OneLoopIdle
    /\ UNCHANGED <<results, exc, P, V>>

AudioPowerUpdate ==
    /\ pc = "AudioPowerUpdate"
    /\ P' = AudioPower(W, X_mics, N)
    /\ sub' = 0
    /\ trace' = << <<"power">> >>
    /\ pc' = "NMFUpdate"
    /\ OneLoopIdle
    /\ UNCHANGED <<rng, results, exc, W, R, G, V, epoch, row, lastValid,
                   diag, Y, fin>>

NMFPass ==
    /\ pc = "NMFUpdate"
    /\ ~NmfDone(sub)
    /\ AllFinite(W, R, G, N)
    /\ R' = UpdateR(R, G, U_blinky, P, N)
    /\ G' = UpdateG(R', G, U_blinky, N)
    /\ sub' = sub + 1
    /\ trace' = Append(trace, <<"nmf", sub + 1>>)
    /\ OneLoopIdle
    /\ UNCHANGED <<rng, pc, results, exc, W, P, V, epoch, row, lastValid,
                   diag, Y, fin>>

CovarianceUpdate ==
    /\ pc = "NMFUpdate"
    /\ NmfDone(sub) \/ ~AllFinite(W, R, G, N)
    /\ IF AllFinite(W, R, G, N)
       THEN /\ V' = Covariance(X_mics, R, G, N)
            /\ row' = 0
            /\ trace' = Append(trace, <<"cov">>)
            /\ pc' = "DemixingUpdate"
            /\ UNCHANGED <<W, R, G, diag, Y, fin>>
       ELSE /\ Abort
            /\ UNCHANGED <<V, row, trace>>
    /\ OneLoopIdle
    /\ UNCHANGED <<rng, results, exc, P, epoch, sub, lastValid>>

DemixRow ==
    /\ pc = "DemixingUpdate"
    /\ ~DemixDone(row)
    /\ AllFinite(W, R, G, N)
    /\ LET f == RowBin(row)
           k == RowSrc(row)
       IN  /\ W' = [W EXCEPT ![f][k] = RowUpdate(W[f], k, V[f][k], N)]
           /\ trace' = Append(trace, <<"row", f, k>>)
    /\ row' = row + 1
    /\ OneLoopIdle
    /\ UNCHANGED <<rng, pc, results, exc, R, G, P, V, epoch, sub, lastValid,
                   diag, Y, fin>>

\* the finite check; at the iteration boundary, the callback or the next
\* iteration
EndIteration ==
    /\ pc = "DemixingUpdate"
    /\ DemixDone(row) \/ ~AllFinite(W, R, G, N)
    /\ IF AllFinite(W, R, G, N)
       THEN /\ lastValid' = State(W, R, G)
            /\ epoch' = epoch + 1
            /\ UNCHANGED <<W, R, G, diag>>
            /\ IF Cb
               THEN /\ pc' = "CallbackInvocation"
                    /\ UNCHANGED <<Y, fin>>
               ELSE Continue(epoch + 1, State(W, R, G))
       ELSE /\ Abort
            /\ UNCHANGED <<lastValid, epoch>>
    /\ OneLoopIdle
    /\ UNCHANGED <<rng, results, exc, P, V, sub, row, trace>>

\* the demixing matrices after the callback was handed the spectra y:
\* convergence_callback reads y and writes to its SDR and SIR lists only
ProjectedInPlace(w, y) == y
AfterCallback(w, y) == w

CallbackInvocation ==
    /\ pc = "CallbackInvocation"
    /\ trace' = Append(trace, <<"callback">>)
    /\ LET y == Output(W, X_mics, N, parameters.proj_back)
       IN  /\ W' = AfterCallback(W, y)
           /\ IF EvalRaises(y, N, N, Name)
              THEN /\ pc' = CallbackFailure.pc
                   /\ exc' = CallbackFailure.exc
                   /\ rng' = RngOnRaise(rng_state, rng)
                   /\ UNCHANGED <<results, Y, fin>>
              ELSE /\ results' = AppendEval(results, y, N, N, Name)
                   /\ UNCHANGED <<rng, exc>>
                   /\ Continue(epoch, State(AfterCallback(W, y), R, G))
    /\ OneLoopIdle
    /\ UNCHANGED <<R, G, P, V, epoch, sub, row, lastValid, diag>>

-----------------------------------------------------------------------------
(* mbss_oneshot.py *)

choices == {"ilrma", "auxiva", "auxiva-gauss", "blinkiva-gauss"}

oneshot_seed == 10
oneshot_n_mics == MaxMics
n_sources_target == MaxSrc

\* the number of channels of the spectra an algorithm works on
OneshotChannels(algo) ==
    IF algo = "blinkiva-gauss" THEN n_sources_target ELSE oneshot_n_mics

\* the spectra an algorithm may hand to the callback or return: every channel
\* carries a signal, the same in every bin
OneshotSpectra(n) ==
    { [f \in Bins |-> c] : c \in [1..n -> {Floor, Floor + 1}] }

\* "For conventional methods of BSS, reorder the signals by decreasing power"
OneshotReorder(y, algo) == IF algo # "blinkiva" THEN SortDesc(y) ELSE y

OneshotEvaluated(y, n, algo) ==
    SubSeq(OneshotReorder(Synthesis(y, n), algo), 1, n_sources_target)

\* everything of one_loop and of the model of the estimator stays blank
OneshotIdle ==
    UNCHANGED <<rng, parameters, args, rng_state, X_mics, U_blinky, algIdx,
                exc, ref, W, R, G, P, V, sub, row, lastValid, diag, trace,
                fin>>

\* the running algorithm calls convergence_callback(Y)
OneshotCallback(y) ==
    /\ pc = "oneshot"
    /\ epoch < n_iter
    /\ epoch' = epoch + 1
    /\ LET e == OneshotEvaluated(y, OneshotChannels(args.algo), args.algo)
       IN  results' = [SDR |-> Append(results.SDR, Sdr(e)),
                       SIR |-> Append(results.SIR, Sir(e))]
    /\ UNCHANGED <<pc, Y, ret>>
    /\ OneshotIdle

\* the algorithm returns Y
OneshotSeparated(y) ==
    /\ pc = "oneshot"
    /\ epoch = n_iter
    /\ Y' = y
    /\ pc' = "oneshot_separated"
    /\ UNCHANGED <<results, epoch, ret>>
    /\ OneshotIdle

\* iSTFT, reordering and the evaluation of the final output
OneshotFinal ==
    /\ pc = "oneshot_separated"
    /\ LET e == OneshotEvaluated(Y, OneshotChannels(args.algo), args.algo)
       IN  ret' = <<[y |-> e, sdr |-> Sdr(e), sir |-> Sir(e)]>>
    /\ pc' = "oneshot_done"
    /\ UNCHANGED <<results, epoch, Y>>
    /\ OneshotIdle

\* the script is started with --algo among the choices
OneshotInit ==
    /\ rng = SeedState(oneshot_seed)
    /\ parameters = Blank
    /\ pc = "oneshot"
    /\ args \in [algo : choices]
    /\ rng_state = NoValue /\ X_mics = NoValue /\ U_blinky = NoValue
    /\ results = [SDR |-> <<>>, SIR |-> <<>>]
    /\ algIdx = 0 /\ ret = <<>> /\ exc = None
    /\ W = Blank /\ R = Blank /\ G = Blank /\ P = Blank /\ V = Blank
    /\ epoch = 0 /\ sub = 0 /\ row = 0 /\ lastValid = Blank
    /\ diag = FALSE /\ Y = Blank /\ trace = <<>> /\ fin = <<>>
    /\ ref = <<>>

OneshotNext ==
    \/ \E y \in OneshotSpectra(OneshotChannels(args.algo)) : OneshotCallback(y)
    \/ \E y \in OneshotSpectra(OneshotChannels(args.algo)) : OneshotSeparated(y)
    \/ OneshotFinal

-----------------------------------------------------------------------------

Init ==
    /\ rng \in 0..(RngMod - 1)
    /\ parameters \in Parameters
    /\ pc = "idle"
    /\ args = Blank /\ rng_state = NoValue /\ X_mics = NoValue
    /\ U_blinky = NoValue /\ results = Blank /\ algIdx = 0
    /\ ret = <<>> /\ exc = None
    /\ W = Blank /\ R = Blank /\ G = Blank /\ P = Blank /\ V = Blank
    /\ epoch = 0 /\ sub = 0 /\ row = 0 /\ lastValid = Blank
    /\ diag = FALSE /\ Y = Blank /\ trace = <<>> /\ fin = <<>>
    /\ ref = <<>>

DriverNext ==
    \/ DriverInit
    \/ AudioPowerUpdate
    \/ NMFPass
    \/ CovarianceUpdate
    \/ DemixRow
    \/ EndIteration
    \/ CallbackInvocation

Next ==
    \/ \E a \in Args : CallUnderdetermined(a)
    \/ \E a \in Args : CallSimulate(a)
    \/ LoopStart
    \/ LoopDone
    \/ LastEval
    \/ \E keep \in BOOLEAN : Finish(keep)
    \/ \E r \in 0..(RngMod - 1) : OtherRngUse(r)
    \/ \E p \in Parameters : Configure(p)
    \/ GenerateArguments
    \/ TakeArguments
    \/ AuxivaIteration
    \/ AuxivaReturn
    \/ DriverNext

Spec == Init /\ [][Next]_vars

\* the separation runs synchronously in the calling thread: once started, its
\* steps are taken one after the other
FairSpec == Spec /\ WF_vars(DriverNext)

\* one run of the mbss_oneshot script
OneshotSpec == OneshotInit /\ [][OneshotNext]_vars

-----------------------------------------------------------------------------
(* Claims *)

Ended == pc \in {"returned", "raised"}

\* one_loop is running or has just ended
InOneLoop == pc \notin {"idle", "generated"}

\* the running call asks for more sources than there are microphones
MoreSourcesThanMics == InOneLoop /\ args.n_mics < args.n_targets

\* C1 (as stated): a call with more sources than microphones ends with an
\* error surfaced to the caller, not with a normal return.
C1_RejectedWithError == (Ended /\ MoreSourcesThanMics) => pc = "raised"

\* C1 (amended): a call of one_loop with more sources than microphones
\* raises nothing; it returns normally, and what it returns is the empty list.
C1_ReturnsEmptyList ==
    (Ended /\ MoreSourcesThanMics) =>
        (pc = "returned" /\ ret = << <<>> >> /\ exc = None)

C1_Witness == pc = "returned" /\ MoreSourcesThanMics /\ ret = << <<>> >>

\* C2: when n_mics < n_targets the call does nothing before it returns: the
\* generator is neither read nor reseeded, nothing is simulated, no algorithm
\* and no callback runs, no result entry is created, the returned list is
\* empty.
C2_NoComputation ==
    [][(pc = "idle" /\ InOneLoop' /\ args'.n_mics < args'.n_targets) =>
          /\ pc' = "returned"
          /\ ret' = << <<>> >>
          /\ rng' = rng
          /\ rng_state' = NoValue
          /\ X_mics' = NoValue /\ U_blinky' = NoValue
          /\ results' = Blank
          /\ W' = Blank /\ R' = Blank /\ G' = Blank /\ Y' = Blank
          /\ trace' = <<>> /\ epoch' = 0]_vars

C2_Witness ==
    /\ pc = "returned" /\ MoreSourcesThanMics
    /\ rng_state = NoValue /\ results = Blank /\ W = Blank

\* the running call has the arguments and the parameters of the kept call
SameCall ==
    /\ ref # <<>>
    /\ pc # "idle"
    /\ ref[1].args = args
    /\ ref[1].parameters = parameters

\* C3: two calls of one_loop with the same arguments (seed included) and the
\* same parameters end the same way with the same results, whatever the
\* generator's state at the entry of each.
C3_Reproducible ==
    (Ended /\ SameCall) => (pc = ref[1].pc /\ ret = ref[1].ret)

C3_Witness ==
    /\ pc = "returned" /\ SameCall
    /\ Len(ret[1]) >= 1
    /\ Len(ret[1][Len(ret[1])].sdr) >= 2
    /\ rng_state # ref[1].entry_rng
    /\ rng_state # SeedState(args.seed)

\* C4: however a call ends (underdetermined return, normal return, or an
\* exception propagating out), the generator is in the state it had at entry.
C4_RngRestored == (Ended /\ rng_state # NoValue) => rng = rng_state

\* C5: a failure of the convergence callback is not caught: the step in which
\* the evaluator raises ends the call as raised, the caller gets no results
\* list, and nothing more of the call runs (no later algorithm starts).
C5_CallbackFailurePropagates ==
    [][/\ (/\ pc = "CallbackInvocation"
           /\ EvalRaises(Output(W, X_mics, N, parameters.proj_back),
                         N, N, Name))
          => (pc' = "raised" /\ exc' = "callback" /\ ret' = <<>>
              /\ results' = results /\ algIdx' = algIdx)
       /\ (/\ pc = "auxiva" /\ epoch < n_iter /\ Cb
           /\ EvalRaises(Output(AuxivaUpdate(W, X_mics, args.n_mics), X_mics,
                                args.n_mics, parameters.proj_back),
                         args.n_mics, N, Name))
          => (pc' = "raised" /\ exc' = "callback" /\ ret' = <<>>
              /\ results' = results /\ algIdx' = algIdx)
       /\ (pc = "raised") => (ret = <<>> /\ pc' = "idle")]_vars

C5_Witness ==
    /\ pc = "raised" /\ exc = "callback"
    /\ algIdx < Len(Algos)
    /\ epoch >= 1

-----------------------------------------------------------------------------
(* Claims about the joint iteration driver *)

\* the joint driver has returned to one_loop
JointReturned == fin # <<>>

\* the joint driver was left by an exception of the callback
JointRaised ==
    pc = "raised" /\ exc = "callback" /\ Name = "blinkiva-gauss"

NmfFrom == 1 + 1
CovAt == n_nmf_sub_iter + 2
RowsFrom == n_nmf_sub_iter + 3
RowsTo == n_nmf_sub_iter + 2 + Rows
FullLen == RowsTo + (IF Cb THEN 1 ELSE 0)

\* the kind of the i-th step of an outer iteration
StepAt(i) ==
    IF i < NmfFrom THEN "power"
    ELSE IF i < CovAt THEN "nmf"
    ELSE IF i = CovAt THEN "cov"
    ELSE IF i <= RowsTo THEN "row"
    ELSE "callback"

\* C6: in every outer iteration the steps come in the order power update,
\* n_nmf_sub_iter NMF passes, covariances, one demixing update per (bin,
\* source) row, then the callback if there is one; the callback and the next
\* power update start only when every row of every bin has been updated.
C6_StepOrder ==
    (trace # <<>>) =>
        /\ Len(trace) <= FullLen
        /\ \A i \in 1..Len(trace) : trace[i][1] = StepAt(i)
        /\ \A i \in NmfFrom..Min(CovAt - 1, Len(trace)) :
              trace[i][2] = i - 1
        /\ \A i, j \in RowsFrom..Min(RowsTo, Len(trace)) :
              i # j => trace[i] # trace[j]
        /\ pc = "CallbackInvocation" => Len(trace) = RowsTo
        /\ pc = "AudioPowerUpdate" => Len(trace) = FullLen
        /\ (pc = "Terminated" /\ JointReturned /\ ~diag) =>
              Len(trace) = FullLen

C6_Witness ==
    /\ pc = "CallbackInvocation" /\ epoch = n_iter /\ N = MaxSrc
    /\ Len(trace) = RowsTo
    /\ \A f \in Bins : \A k \in Srcs(N) :
          \E i \in RowsFrom..RowsTo : trace[i] = <<"row", f, k>>

\* the joint driver is running
InJoint ==
    pc \in {"Initializing", "AudioPowerUpdate", "NMFUpdate", "DemixingUpdate",
            "CallbackInvocation"}

StepsPerIter == n_nmf_sub_iter + Rows + 4

\* how far the running driver is
Progress ==
    CASE pc = "Initializing" -> 0
      [] pc = "AudioPowerUpdate" -> epoch * StepsPerIter + 1
      [] pc = "NMFUpdate" -> epoch * StepsPerIter + 2 + sub
      [] pc = "DemixingUpdate" ->
            epoch * StepsPerIter + 3 + n_nmf_sub_iter + row
      [] pc = "CallbackInvocation" -> epoch * StepsPerIter

\* C7 (as stated): whenever the joint driver is over without a numerical
\* failure, it has run exactly n_iter outer iterations; nothing but the
\* budget ends the loop, the callback included.
C7_OnlyBudgetEnds ==
    ((JointReturned \/ JointRaised) /\ ~diag) => epoch = n_iter

\* C7 (amended): a started joint driver always comes to an end; it never runs
\* more than n_iter outer iterations; it returns after exactly n_iter of
\* them unless a numerical failure aborted it, and the only other way it
\* ends is an exception raised by the callback.
\* Termination is stated as bounded progress: inside the driver a step is
\* always possible, and every step either leaves the driver or moves it
\* forward in an order that epoch <= n_iter bounds.
C7_Terminates ==
    /\ [](epoch <= n_iter)
    /\ []((JointReturned /\ ~fin[1].diag) => fin[1].epoch = n_iter)
    /\ []((JointReturned /\ fin[1].diag) => fin[1].epoch < n_iter)
    /\ [](InJoint => (ENABLED DriverNext /\ Progress <= (n_iter + 1) * StepsPerIter))
    /\ [][InJoint =>
            \/ (InJoint' /\ Progress' > Progress)
            \/ (~InJoint' /\ (JointReturned' \/ JointRaised'))]_vars

C7_Witness ==
    /\ pc = "Terminated" /\ JointReturned
    /\ ~fin[1].diag /\ fin[1].epoch = n_iter
    /\ Cb /\ Len(results[Len(results)].sdr) = n_iter

\* the kept call ran the joint driver to its return on the same arguments
SameInputs ==
    /\ ref # <<>>
    /\ pc # "idle"
    /\ ref[1].args = args
    /\ ref[1].fin # <<>>

\* C8: the callback and projection back do not feed back into the estimator:
\* the callback step leaves W, R and G as they are, and the W, R, G the
\* driver ends with are the same with or without a callback and with or
\* without projection back.
C8_NoFeedback ==
    /\ []((JointReturned /\ SameInputs) => fin = ref[1].fin)
    /\ [][pc = "CallbackInvocation" => (W' = W /\ R' = R /\ G' = G)]_vars

C8_Witness ==
    /\ JointReturned /\ SameInputs
    /\ fin[1].epoch = n_iter
    /\ parameters.monitor_convergence # ref[1].parameters.monitor_convergence
    /\ parameters.proj_back # ref[1].parameters.proj_back
    /\ X_mics > 1

HasFactors == R # Blank /\ G # Blank

\* C10: whenever the estimator holds R and G (after initialization, after
\* every NMF pass), every entry of both is at least the clipping floor.
C10_Nonnegative ==
    HasFactors =>
        \A k \in Srcs(N) : R[k] >= Floor /\ G[k] >= Floor /\ Floor > 0

C10_Witness ==
    /\ pc = "NMFUpdate" /\ sub = n_nmf_sub_iter /\ epoch >= 1
    /\ U_blinky = 0 /\ X_mics > 0
    /\ \A k \in Srcs(N) : G[k] = Floor

-----------------------------------------------------------------------------
(* Claims about generate_arguments and about the results of one_loop *)

Range(l) == { l[i] : i \in 1..Len(l) }

\* the i-th tuple of a generated list, without its seed
Combination(out, i) ==
    <<out[i].n_targets, out[i].n_mics, out[i].rt60, out[i].sinr,
      out[i].wav_files>>

\* C11: the list generate_arguments returns holds exactly one tuple for every
\* combination of the parameter lists with n_targets <= n_mics, none for a
\* combination with n_targets > n_mics and nothing else, so that one_loop's
\* underdetermined guard is false for every tuple of the list.
C11_DeterminedOnly ==
    (pc = "generated") =>
        LET out == ret[1]
        IN  /\ \A i \in 1..Len(out) :
                 /\ ~Underdetermined(out[i])
                 /\ out[i].n_targets \in Range(args.n_targets_list)
                 /\ out[i].n_mics \in Range(args.n_mics_list)
                 /\ out[i].rt60 \in Range(rt60_list)
                 /\ out[i].sinr \in Range(sinr_list)
                 /\ out[i].wav_files \in Range(all_wav_files(args))
            /\ \A nt \in Range(args.n_targets_list) :
               \A nm \in Range(args.n_mics_list) :
               \A rt \in Range(rt60_list) :
               \A si \in Range(sinr_list) :
               \A wv \in Range(all_wav_files(args)) :
                  Cardinality({ i \in 1..Len(out) :
                                  Combination(out, i) = <<nt, nm, rt, si, wv>> })
                      = IF nt <= nm THEN 1 ELSE 0

C11_Witness ==
    /\ pc = "generated"
    /\ \E nt \in Range(args.n_targets_list) :
       \E nm \in Range(args.n_mics_list) : nt > nm
    /\ \E nt \in Range(args.n_targets_list) :
       \E nm \in Range(args.n_mics_list) : nt < nm
    /\ args.n_repeat > 1
    /\ Len(ret[1]) > args.n_repeat * Len(rt60_list)

\* one_loop got past the underdetermined guard and returned its results
ReturnedResults == pc = "returned" /\ ~MoreSourcesThanMics

IsPrefix(s, t) == Len(s) <= Len(t) /\ SubSeq(t, 1, Len(s)) = s

LastOf(s) == s[Len(s)]

\* the evaluation of the unprocessed mixture under an algorithm's name
InitialEval(name) ==
    Evaluated(MicSpectra(X_mics, args.n_mics), args.n_mics, N, name)

\* the number of channels of the Y the running algorithm returns
Channels == IF Name = "auxiva" THEN args.n_mics ELSE N

\* C12 (as stated): the returned list has one entry per algorithm listed in
\* algorithm_kwargs, in order; the sdr and sir lists of an entry only grow
\* and always have the same length; the last element of every entry is the
\* evaluation of the Y its algorithm returned; without monitoring every entry
\* holds exactly two elements, the evaluation of X_mics then the final one.
C12_CompleteTraces ==
    /\ [](ReturnedResults =>
            /\ Len(ret[1]) = Len(Algos)
            /\ \A i \in 1..Len(Algos) :
                  /\ ret[1][i].algorithm = Algos[i]
                  /\ Len(ret[1][i].sdr) = Len(ret[1][i].sir)
                  /\ Len(ret[1][i].sdr) >= 1
                  /\ ~parameters.monitor_convergence =>
                        /\ Len(ret[1][i].sdr) = 2
                        /\ ret[1][i].sdr[1] = Sdr(InitialEval(Algos[i])))
    /\ []((InOneLoop /\ results # Blank) =>
            \A i \in 1..Len(results) :
                Len(results[i].sdr) = Len(results[i].sir))
    /\ [][(InOneLoop /\ InOneLoop') =>
            /\ Len(results') >= Len(results)
            /\ \A i \in 1..Len(results) :
                  /\ IsPrefix(results[i].sdr, results'[i].sdr)
                  /\ IsPrefix(results[i].sir, results'[i].sir)]_vars
    /\ [][(InOneLoop /\ algIdx >= 1 /\ algIdx' = algIdx + 1) =>
            /\ pc = "Terminated"
            /\ LastOf(results'[algIdx].sdr) =
                  Sdr(Evaluated(Y, Channels, N, Name))]_vars

\* the spectra the running algorithm hands to its callback in this step
CallbackSpectra ==
    IF pc = "auxiva"
    THEN Output(W', X_mics, args.n_mics, parameters.proj_back)
    ELSE Output(W, X_mics, N, parameters.proj_back)

\* an entry after the evaluation e was appended to its sdr and sir lists
WithEval(entry, e) ==
    [entry EXCEPT !.sdr = Append(entry.sdr, Sdr(e)),
                  !.sir = Append(entry.sir, Sir(e))]

\* C13: a callback made while the algorithm at position algIdx runs changes
\* the entry at that position only, which is the last one and carries that
\* algorithm's name; it appends to its sdr and sir lists the evaluation made
\* under that name; the entries of the algorithms before it never change.
C13_CallbackTarget ==
    [][(InOneLoop /\ InOneLoop') =>
          /\ \A i \in 1..Len(results) :
                i < algIdx => (Len(results') >= i /\ results'[i] = results[i])
          /\ (pc \in {"CallbackInvocation", "auxiva"} /\ results' # results)
                => /\ Len(results) = algIdx
                   /\ Len(results') = algIdx
                   /\ results[algIdx].algorithm = Algos[algIdx]
                   /\ results'[algIdx] =
                         WithEval(results[algIdx],
                                  Evaluated(CallbackSpectra, Channels, N,
                                            Algos[algIdx]))]_vars

C13_Witness ==
    /\ pc = "AudioPowerUpdate" /\ epoch >= 1 /\ Cb
    /\ algIdx > 1 /\ Len(results) = algIdx
    /\ Len(results[algIdx].sdr) = epoch
    /\ Len(results[1].sdr) = n_iter + 1
    /\ results[1].algorithm # results[algIdx].algorithm
    /\ N > 1

-----------------------------------------------------------------------------
(* Claims about the reordering of the separated signals, in both scripts *)

BlinkivaFamily == {"blinkiva", "blinkiva-gauss"}

\* the channels in the order the algorithm returned them
AsReturned(y, n, n_targets) == SubSeq(Synthesis(y, n), 1, n_targets)

\* the channels sorted by decreasing power
ByPower(y, n, n_targets) == SubSeq(SortDesc(Synthesis(y, n)), 1, n_targets)

\* what the claim says is evaluated for the output y of an algorithm
ClaimedOrder(y, n, n_targets, algo) ==
    IF algo \in BlinkivaFamily THEN AsReturned(y, n, n_targets)
    ELSE ByPower(y, n, n_targets)

\* C14 (as stated): in mbss_oneshot, the final evaluation and every callback
\* evaluation take the output of a blinkiva-family algorithm in the order it
\* was returned and the output of any other algorithm sorted by decreasing
\* power, which is the decision mbss_sim takes for the same algorithm name.
C14_ReorderOnlyConventional ==
    /\ [](pc = "oneshot_done" =>
            /\ ret[1].y = ClaimedOrder(Y, OneshotChannels(args.algo),
                                       n_sources_target, args.algo)
            /\ ret[1].y = Evaluated(Y, OneshotChannels(args.algo),
                                    n_sources_target, args.algo))
    /\ [][(pc = "oneshot" /\ epoch' = epoch + 1) =>
            \E y \in OneshotSpectra(OneshotChannels(args.algo)) :
                /\ LastOf(results'.SDR) =
                      Sdr(ClaimedOrder(y, OneshotChannels(args.algo),
                                       n_sources_target, args.algo))
                /\ LastOf(results'.SDR) =
                      Sdr(Evaluated(y, OneshotChannels(args.algo),
                                    n_sources_target, args.algo))]_vars

====
